---- MODULE Spec2Model ----
(***************************************************************************)
(* Execution supervisor of the mow-bot brain lab.                          *)
(*                                                                         *)
(* The store (src/store.ts), the Brain Lab buttons                          *)
(* (src/components/BrainLab.tsx), the BrainExecutor (utils/brain.ts) and   *)
(* the Robot component's effects and frame callback                        *)
(* (src/components/Robot.tsx) as one state machine.                        *)
(*                                                                         *)
(* Units.  Times are counted in 1/TimeUnitsPerSec seconds.  Script speeds  *)
(* are in 0.1 m/s, steering requests in 1/20 rad and the actuator inputs   *)
(* (throttle, steer, brake) in 1/20, so that 1.0 is 20 and 0.5 is 10.      *)
(* step durations are in whole milliseconds.                               *)
(***************************************************************************)
EXTENDS Integers, Sequences, FiniteSets, TLC

VARIABLES
    executionStatus,   \* store.executionStatus
    autonomyEnabled,   \* store.autonomyEnabled
    userCode,          \* store.userCode
    errorLog,          \* store.errorLog
    revisions,         \* store.revisions, newest first
    aiLogs,            \* store.aiLogs, newest first
    rendered,          \* the store values captured by Robot's last render
    lastCodeRef,       \* Robot: lastCodeRef.current
    brain,             \* BrainExecutor: initFn and stepFn
    api,               \* BrainExecutor: this.api ("null" or "bound")
    hasInit,           \* executor['hasInit']
    safetyTimerRef,    \* Robot: safetyTimerRef.current
    aiLogTimerRef,     \* Robot: aiLogTimerRef.current
    staleTicks,        \* frames run since a store write not yet rendered
    last,              \* what the last action did (observation only)
    initSinceDeploy,   \* init was invoked since the last successful deploy
    runTime,           \* fault-free stepped time since the last deploy
    inited,            \* init was invoked since the last successful compile
    faulted,           \* a step faulted and the user has not acted since
    sinceEvent,        \* metered time since the run began or the last PERIODIC
    deploys,           \* number of DEPLOY & RUN clicks so far (the clock of
                       \* the revisions' timestamps)
    telemetryHistory,  \* store: the telemetry frames, as their sample numbers
    scan               \* the call of planCoverage in progress: its arguments
                       \* and the variables of its scan loop

vars == <<executionStatus, autonomyEnabled, userCode, errorLog, revisions,
          aiLogs, rendered, lastCodeRef, brain, api, hasInit, safetyTimerRef,
          aiLogTimerRef, staleTicks, last, initSinceDeploy, runTime, inited,
          faulted, sinceEvent, deploys, telemetryHistory, scan>>

\* The variables that only observe the run, each followed where a property
\* reads it
history == <<runTime, faulted, sinceEvent>>

----------------------------------------------------------------------------
(* Bounds of the model *)

TimeUnitsPerSec == 20
MaxDeploys == 2
MaxStaleTicks == 1
MaxWrites == 1
MaxAiLogs == 1
MaxLedgerDeploys == 52
MaxHalfSide == 5
MaxWidth == 4
MaxFrames == 602
MaxMagnitude == 40

(* Constants of the program *)

DT_CLAMP == TimeUnitsPerSec \div 20      \* dt = Math.min(delta, 0.05)
T_SAFE == 3 * TimeUnitsPerSec            \* safetyTimerRef.current > 3.0
T_PERIODIC == 30 * TimeUnitsPerSec       \* aiLogTimerRef.current >= 30.0
BUDGET_MS == 5
REVISION_CAP == 50
TELEMETRY_CAP == 600
AI_LOG_CAP == 50

Null == "null"
DEFAULT_CODE == "default"
Scripts == {DEFAULT_CODE, "patrol", "broken"}

BUDGET_MESSAGE == "CPU Budget Exceeded (5ms)"
RUNTIME_ERROR == "Runtime Error"

----------------------------------------------------------------------------
(* Helpers *)

Min(a, b) == IF a < b THEN a ELSE b
Abs(x) == IF x < 0 THEN -x ELSE x
Clamp(x, lo, hi) == IF x < lo THEN lo ELSE IF x > hi THEN hi ELSE x
Take(s, n) == SubSeq(s, 1, Min(n, Len(s)))

\* The fault-free timers are only ever compared with T_SAFE: above it they
\* are kept at T_SAFE + DT_CLAMP.
Saturate(t) == Min(t, T_SAFE + DT_CLAMP)

----------------------------------------------------------------------------
(* BrainExecutor.compile *)

NO_STEP_MESSAGE == "Code must return an object with a 'step' function."

\* Script texts given to compile alone: what each does when evaluated
CompileTexts ==
    Scripts \cup {"stepOnly", "throwsError", "throwsString", "throwsNull",
                  "returnsNothing", "noStep", "stepNotCallable", "fickleStep",
                  "fickleValue", "returnsNull", "usesDocument", "usesStore"}

\* The names a script text uses without declaring them
FreeNames(code) ==
    CASE code = "usesDocument" -> {"document"}
      [] code = "usesStore" -> {"useStore"}
      [] OTHER -> {}

\* The host's names: the properties of the page's global object, and the
\* bindings of the host's modules
HostGlobals == {"document", "window"}
HostModuleBindings == {"useStore", "executor"}

\* The scope of a function made by `new Function(code)` is the global scope
FunctionScope == HostGlobals

\* The host objects a script reaches through its free names
Reached(code) == FreeNames(code) \cap FunctionScope

\* What `new Function(code)()` yields for each script text: the value thrown
\* (Null if none) and the result returned.  `step` lists what the first and
\* the later reads of result.step give (a script can define it as a getter).
Evaluate(code) ==
    LET Returned(object, init, step) ==
            [thrown |-> Null, object |-> object, init |-> init, step |-> step]
        Threw(e) ==
            [thrown |-> e, object |-> FALSE, init |-> FALSE,
             step |-> <<"absent", "absent">>]
    IN  CASE code = "broken" -> Threw("SyntaxError")
          [] FreeNames(code) \ FunctionScope # {} -> Threw("ReferenceError")
          [] code = "throwsError" -> Threw("Error")
          [] code = "throwsString" -> Threw("string")
          [] code = "throwsNull" -> Threw("undefined")
          [] code = "returnsNothing" -> Returned(FALSE, FALSE, <<"absent", "absent">>)
          [] code = "returnsNull" -> Returned(FALSE, FALSE, <<"absent", "absent">>)
          [] code = "noStep" -> Returned(TRUE, TRUE, <<"absent", "absent">>)
          [] code = "stepNotCallable" -> Returned(TRUE, TRUE, <<"number", "number">>)
          [] code = "fickleStep" -> Returned(TRUE, TRUE, <<"function", "throws">>)
          [] code = "fickleValue" -> Returned(TRUE, TRUE, <<"function", "number">>)
          [] code = "stepOnly" -> Returned(TRUE, FALSE, <<"function", "function">>)
          [] OTHER -> Returned(TRUE, TRUE, <<"function", "function">>)

\* e.toString() of a caught value; undefined and null have none
toString(e) == IF e = "Error" THEN "Error: boom" ELSE e

\* The exception compile's try block ends with (Null if none), and whether
\* it ends before (0) or after (1) this.initFn was assigned
Interrupted(code) ==
    LET ev == Evaluate(code)
    IN  IF ev.thrown # Null THEN [e |-> ev.thrown, at |-> 0]
        ELSE IF ev.object /\ ev.step[1] = "throws" THEN [e |-> "Error", at |-> 0]
        ELSE IF ev.object /\ ev.step[1] = "function" /\ ev.step[2] = "throws"
             THEN [e |-> "Error", at |-> 1]
        ELSE [e |-> Null, at |-> 0]

\* The value compile returns; raised: compile itself throws, out of its
\* catch block
compile(code) ==
    LET ev == Evaluate(code)
        e == Interrupted(code).e
    IN  IF e = "undefined"
        THEN [success |-> FALSE, error |-> Null, raised |-> TRUE]
        ELSE IF e # Null
        THEN [success |-> FALSE, error |-> toString(e), raised |-> FALSE]
        ELSE IF ~ev.object \/ ev.step[1] # "function"
        THEN [success |-> FALSE, error |-> NO_STEP_MESSAGE, raised |-> FALSE]
        ELSE [success |-> TRUE, error |-> Null, raised |-> FALSE]

NoFn == [from |-> Null, fn |-> Null]

\* The executor's initFn and stepFn after compile(code), from those before
Compiled(b, code) ==
    LET ev == Evaluate(code)
        stopped == Interrupted(code)
        initFn == [from |-> code, fn |-> IF ev.init THEN "init" ELSE "noop"]
        stepFn == [from |-> code,
                   fn |-> IF ev.step[2] = "function" THEN "step" ELSE ev.step[2]]
    IN  IF stopped.e # Null
        THEN IF stopped.at = 1 THEN [b EXCEPT !.initFn = initFn] ELSE b
        ELSE IF compile(code).success
        THEN [initFn |-> initFn, stepFn |-> stepFn]
        ELSE b

----------------------------------------------------------------------------
(* The capability object's actuator writes *)

Neutral == [throttle |-> 0, steer |-> 0, brake |-> 0]

setSpeed(inputs, v, currentSpeed) ==
    [inputs EXCEPT
        !.throttle = Clamp(v - currentSpeed, -20, 20),
        !.brake = IF Abs(v) < 1 /\ Abs(currentSpeed) < 5 THEN 20 ELSE @]

setSteer(inputs, r) == [inputs EXCEPT !.steer = Clamp(-r, -20, 20)]

stop(inputs) == [inputs EXCEPT !.throttle = 0, !.brake = 20]

Writes ==
    { [op |-> "setSpeed", arg |-> 30], [op |-> "setSpeed", arg |-> 0],
      [op |-> "setSteer", arg |-> 10], [op |-> "stop", arg |-> 0] }

Speeds == {0, 20}

\* What a script call does to the actuators: a sequence of writes.
Programs == UNION { [1..n -> Writes] : n \in 0..MaxWrites }

\* The telemetry and debug calls of a script, with an argument that is as
\* documented ("valid"), undefined or null ("missing"), or of another type
\* ("malformed": a number for a position, for a list of points, for a value
\* to log)
Calls ==
    [op : {"telemetry.log", "telemetry.watch", "debug.text", "debug.path"},
     arg : {"valid", "missing", "malformed"}]

CallPrograms == UNION { [1..n -> Calls] : n \in 0..MaxWrites }

\* Whether a call of the capability object throws into the script:
\* debug.text reads p.x of its position, debug.path calls points.map;
\* telemetry.log tests typeof value, telemetry.watch stores what it is given.
Throws(w) ==
    \/ w.op = "debug.text" /\ w.arg = "missing"
    \/ w.op = "debug.path" /\ w.arg \in {"missing", "malformed"}

Raises(prog) == \E i \in DOMAIN prog : Throws(prog[i])

\* The calls of a program made before one of them throws
RECURSIVE Executed(_)
Executed(prog) ==
    IF prog = <<>> \/ Throws(Head(prog)) THEN <<>>
    ELSE <<Head(prog)>> \o Executed(Tail(prog))

Write(inputs, w, currentSpeed) ==
    IF w.op = "setSpeed" THEN setSpeed(inputs, w.arg, currentSpeed)
    ELSE IF w.op = "setSteer" THEN setSteer(inputs, w.arg)
    ELSE IF w.op = "stop" THEN stop(inputs)
    ELSE inputs

RECURSIVE Stage(_, _, _)
Stage(inputs, prog, currentSpeed) ==
    IF prog = <<>> THEN inputs
    ELSE Stage(Write(inputs, Head(prog), currentSpeed), Tail(prog), currentSpeed)

----------------------------------------------------------------------------
(* Store actions *)

(* The coverage planner.  Lengths are in half metres, so that half a tool
   width is a whole number; the polygons below have edges that are parallel
   to an axis or diagonal, for which every intersection is a whole number
   too and the division of intersectLine is exact. *)

P(x, z) == [x |-> 2 * x, z |-> 2 * z]

MinOf(S) == CHOOSE m \in S : \A n \in S : m <= n
MaxOf(S) == CHOOSE m \in S : \A n \in S : m >= n

getPolygonBounds(poly) ==
    [minX |-> MinOf({poly[i].x : i \in DOMAIN poly}),
     maxX |-> MaxOf({poly[i].x : i \in DOMAIN poly}),
     minZ |-> MinOf({poly[i].z : i \in DOMAIN poly}),
     maxZ |-> MaxOf({poly[i].z : i \in DOMAIN poly})]

\* The intersection as a sequence: empty for null
intersectLine(zLine, p1, p2) ==
    IF (p1.z > zLine /\ p2.z > zLine) \/ (p1.z < zLine /\ p2.z < zLine) THEN <<>>
    ELSE IF p1.z = p2.z THEN <<>>
    ELSE <<p1.x + ((zLine - p1.z) * (p2.x - p1.x)) \div (p2.z - p1.z)>>

RECURSIVE Intersections(_, _, _)
Intersections(polygon, z, i) ==
    IF i > Len(polygon) THEN <<>>
    ELSE intersectLine(z, polygon[i], polygon[(i % Len(polygon)) + 1])
             \o Intersections(polygon, z, i + 1)

RECURSIVE Insert(_, _)
Insert(x, xs) ==
    IF xs = <<>> THEN <<x>>
    ELSE IF x <= Head(xs) THEN <<x>> \o xs
    ELSE <<Head(xs)>> \o Insert(x, Tail(xs))

RECURSIVE sort(_)
sort(xs) == IF xs = <<>> THEN <<>> ELSE Insert(Head(xs), sort(Tail(xs)))

RECURSIVE Pairs(_, _, _)
Pairs(xs, z, movingRight) ==
    IF Len(xs) < 2 THEN <<>>
    ELSE (IF movingRight
          THEN <<[x |-> xs[1], z |-> z], [x |-> xs[2], z |-> z]>>
          ELSE <<[x |-> xs[2], z |-> z], [x |-> xs[1], z |-> z]>>)
             \o Pairs(Tail(Tail(xs)), z, movingRight)

\* A planner whose first scan line is the edge of the bounding box.
firstScanAtEdge(bounds, width) == bounds.minZ

firstScan(bounds, width) == bounds.minZ + width \div 2

\* The polygon argument of a call: absent (null or undefined), or a list of
\* vertices
Absent == [given |-> FALSE, vertices |-> <<>>]
Given(vertices) == [given |-> TRUE, vertices |-> vertices]

\* A planner that also plans a polygon of two vertices.
tooFewBelowTwo(polygon) == ~polygon.given \/ Len(polygon.vertices) < 2

tooFew(polygon) == ~polygon.given \/ Len(polygon.vertices) < 3

planCoverage(polygon, width) ==
    LET bounds == getPolygonBounds(polygon.vertices)
        Scan[z \in Int, movingRight \in BOOLEAN] ==
            IF ~(z < bounds.maxZ) THEN <<>>
            ELSE Pairs(sort(Intersections(polygon.vertices, z, 1)), z, movingRight)
                     \o Scan[z + width, ~movingRight]
    IN  IF tooFew(polygon) THEN <<>> ELSE Scan[firstScan(bounds, width), TRUE]

(* The scan loop of planCoverage step by step.  Numbers are doubles: adding
   the width to a z whose magnitude is too large leaves z as it is;
   MaxMagnitude stands for that magnitude. *)
plus(z, width) == IF z + width < -MaxMagnitude THEN z ELSE z + width

NoScan == [pc |-> "none", polygon |-> <<>>, width |-> 0, z |-> 0, movingRight |-> TRUE]

\* The call up to the head of the loop
enterScan(polygon, width) ==
    IF tooFew(polygon)
    THEN [pc |-> "returned", polygon |-> polygon.vertices, width |-> width, z |-> 0,
          movingRight |-> TRUE]
    ELSE [pc |-> "loop", polygon |-> polygon.vertices, width |-> width,
          z |-> firstScan(getPolygonBounds(polygon.vertices), width),
          movingRight |-> TRUE]

\* The test of the loop and one pass through its body
scanLoop(c) ==
    IF ~(c.z < getPolygonBounds(c.polygon).maxZ)
    THEN [c EXCEPT !.pc = "returned"]
    ELSE [c EXCEPT !.z = plus(c.z, c.width), !.movingRight = ~c.movingRight]

Sides == {2 * k : k \in 1..MaxHalfSide}
Rectangle(a, b) == <<P(0, 0), P(a, 0), P(a, b), P(0, b)>>
Triangle(a) == <<P(0, 0), P(a, 0), P(0, a)>>
Diamond(a) == <<P(a \div 2, 0), P(a, a \div 2), P(a \div 2, a), P(0, a \div 2)>>
LShape(a) == <<P(0, 0), P(a, 0), P(a, a \div 2), P(a \div 2, a \div 2), P(a \div 2, a),
               P(0, a)>>
\* A U of outer side 3b and height 2b, whose two arms are b wide
UShape(b) == <<P(0, 0), P(3 * b, 0), P(3 * b, 2 * b), P(2 * b, 2 * b), P(2 * b, b),
               P(b, b), P(b, 2 * b), P(0, 2 * b)>>
FewVertices == {<<>>, <<P(0, 0)>>, <<P(0, 0), P(2, 2)>>}
ConvexPolygons ==
    {Rectangle(a, b) : a \in Sides, b \in Sides}
        \cup {Triangle(a) : a \in Sides} \cup {Diamond(a) : a \in Sides}
Polygons ==
    ConvexPolygons \cup {LShape(a) : a \in Sides} \cup {UShape(b) : b \in Sides}
        \cup FewVertices
Widths == {2 * w : w \in 1..MaxWidth}
\* the widths that are not positive
OtherWidths == {0, -2}

\* A ledger that makes room by dropping the previous deploy instead of the
\* oldest one.
addRevisionEvictsNewest(revs, rev) ==
    IF Len(revs) < REVISION_CAP THEN <<rev>> \o revs ELSE <<rev>> \o Tail(revs)

addRevision(revs, rev) == Take(<<rev>> \o revs, REVISION_CAP)

addTelemetryFrame(frames, frame) ==
    IF Len(frames) > TELEMETRY_CAP
    THEN Tail(frames) \o <<frame>>
    ELSE frames \o <<frame>>

\* An entry is kept as its event and the error message its text carries.
addAiLog(logs, entry) == Take(<<entry>> \o logs, AI_LOG_CAP)

NoTick(kind) ==
    [kind |-> kind, inSync |-> TRUE, pre |-> "none", dt |-> 0, init |-> "none",
     step |-> "none", thrown |-> Null, ms |-> 0, fresh |-> FALSE,
     staged |-> Neutral, applied |-> Neutral, physics |-> FALSE, sets |-> <<>>,
     raised |-> FALSE, metered |-> FALSE, periodic |-> FALSE]

Init ==
    /\ executionStatus = "IDLE"
    /\ autonomyEnabled = FALSE
    /\ userCode = DEFAULT_CODE
    /\ errorLog = Null
    /\ revisions = <<>>
    /\ aiLogs = <<>>
    /\ rendered = [executionStatus |-> "IDLE", autonomyEnabled |-> FALSE]
    /\ lastCodeRef = DEFAULT_CODE
    /\ brain = Compiled([initFn |-> NoFn, stepFn |-> NoFn], DEFAULT_CODE)
    /\ api = "null"
    /\ hasInit = FALSE
    /\ safetyTimerRef = 0
    /\ aiLogTimerRef = 0
    /\ staleTicks = 0
    /\ last = NoTick("Init")
    /\ initSinceDeploy = TRUE
    /\ runTime = 0
    /\ inited = FALSE
    /\ faulted = FALSE
    /\ sinceEvent = 0
    /\ deploys = 0
    /\ telemetryHistory = <<>>
    /\ scan = NoScan

----------------------------------------------------------------------------
(* Robot: a render and the effects it runs *)

\* The store fields Robot's effects and frame callback read
Store ==
    [executionStatus |-> executionStatus, autonomyEnabled |-> autonomyEnabled,
     userCode |-> userCode, errorLog |-> errorLog, aiLogs |-> aiLogs]

\* An effect that clears executor['hasInit'] on a zone reset only.
forceReinitOnZoneOnly(h, compiled, zoneReset) == IF zoneReset THEN FALSE ELSE h

\* executor['hasInit'] after the effects of a render: cleared by a successful
\* compile and by a zone reset
forceReinit(h, compiled, zoneReset) == IF compiled \/ zoneReset THEN FALSE ELSE h

\* Robot renders with the store values `s`, and the effects whose
\* dependencies changed run: the zone effect when the world was regenerated
\* (regen; zoneOk: attemptGenerate found a zone, otherwise the fallback
\* square), the compile-on-change effect and the reset-KPI effect.
Commit(kind, s, regen, zoneOk) ==
    LET zoneReset == regen /\ zoneOk
        \* zone effect
        status0 == IF zoneReset THEN "IDLE" ELSE s.executionStatus
        logs0 == IF zoneReset THEN <<>> ELSE s.aiLogs
        \* compile-on-change effect
        changed == s.userCode # lastCodeRef
        res == compile(s.userCode)
        \* (a compile that itself throws ends the effect there)
        failed == changed /\ ~res.success /\ ~res.raised
        logs1 == IF failed
                 THEN addAiLog(logs0, [event |-> "ALERT", message |-> res.error])
                 ELSE logs0
        \* reset-KPI effect, with the values this render captured
        kpiReset == /\ s.autonomyEnabled # rendered.autonomyEnabled
                    /\ s.autonomyEnabled
                    /\ s.executionStatus = "IDLE"
    IN  /\ failed => Len(logs0) < MaxAiLogs
        /\ rendered' = [executionStatus |-> s.executionStatus,
                        autonomyEnabled |-> s.autonomyEnabled]
        /\ lastCodeRef' = s.userCode
        /\ brain' = IF changed THEN Compiled(brain, s.userCode) ELSE brain
        /\ hasInit' = forceReinit(hasInit, changed /\ res.success, zoneReset)
        /\ inited' = IF changed /\ res.success THEN FALSE ELSE inited
        /\ aiLogTimerRef' = IF zoneReset \/ kpiReset THEN 0 ELSE aiLogTimerRef
        /\ executionStatus' = IF failed THEN "ERROR" ELSE status0
        /\ errorLog' = IF failed THEN res.error ELSE s.errorLog
        /\ aiLogs' = IF kpiReset THEN <<>> ELSE logs1
        /\ autonomyEnabled' = s.autonomyEnabled
        /\ userCode' = s.userCode
        /\ staleTicks' = 0
        /\ last' = NoTick(kind)
        /\ telemetryHistory' = IF changed /\ res.success THEN <<>> ELSE telemetryHistory
        /\ UNCHANGED <<api, safetyTimerRef, scan>>

\* The frame callback sees the store as of Robot's last render.  A write a
\* click handler makes is rendered before the next frame; a write made inside
\* the frame callback or an effect is rendered by a later task, and up to
\* MaxStaleTicks frames may run first.
NeedsRender ==
    \/ rendered.executionStatus # executionStatus
    \/ rendered.autonomyEnabled # autonomyEnabled
    \/ userCode # lastCodeRef

Render ==
    /\ NeedsRender
    /\ Commit("Render", Store, FALSE, FALSE)
    /\ UNCHANGED <<revisions, initSinceDeploy, deploys>>

----------------------------------------------------------------------------
(* User actions *)

(* BrainLab: DEPLOY & RUN with `code` in the editor *)
handleRun(code) ==
    /\ deploys' = deploys + 1
    /\ revisions' = addRevision(revisions, [timestamp |-> deploys + 1, code |-> code,
                                            status |-> "UNKNOWN"])
    /\ initSinceDeploy' = IF compile(code).success THEN FALSE ELSE initSinceDeploy
    /\ Commit("handleRun",
              [Store EXCEPT !.userCode = code, !.executionStatus = "RUNNING",
                            !.errorLog = Null, !.autonomyEnabled = TRUE],
              FALSE, FALSE)

(* BrainLab: STOP / FORCE STOP MISSION *)
handleStop ==
    /\ Commit("handleStop",
              [Store EXCEPT !.executionStatus = "IDLE", !.autonomyEnabled = FALSE],
              FALSE, FALSE)
    /\ UNCHANGED <<revisions, initSinceDeploy, deploys>>

(* BrainLab: LOAD of the i-th revision of the RUNS tab *)
loadRevision(i) ==
    /\ i \in DOMAIN revisions
    /\ Commit("loadRevision", [Store EXCEPT !.userCode = revisions[i].code],
              FALSE, FALSE)
    /\ UNCHANGED <<revisions, initSinceDeploy, deploys>>

(* BrainLab: REVERT TO LAST SAFE.  Without a revision tagged SAFE the store
   is not written and nothing renders. *)
SafeRevisions == {i \in DOMAIN revisions : revisions[i].status = "SAFE"}

revertToSafe ==
    IF SafeRevisions # {}
    THEN /\ Commit("revertToSafe",
                   [Store EXCEPT !.userCode = revisions[MinOf(SafeRevisions)].code,
                                 !.executionStatus = "IDLE", !.errorLog = Null],
                   FALSE, FALSE)
         /\ UNCHANGED <<revisions, initSinceDeploy, deploys>>
    ELSE /\ last' = NoTick("revertToSafe")
         /\ UNCHANGED <<executionStatus, autonomyEnabled, userCode, errorLog,
                        revisions, aiLogs, rendered, lastCodeRef, brain, api, hasInit,
                        safetyTimerRef, aiLogTimerRef, staleTicks, initSinceDeploy,
                        inited, deploys, telemetryHistory, scan>>

(* Dashboard: START MISSION / STOP MISSION *)
toggleAutonomy ==
    /\ Commit("toggleAutonomy",
              [Store EXCEPT !.autonomyEnabled = ~autonomyEnabled], FALSE, FALSE)
    /\ UNCHANGED <<revisions, initSinceDeploy, deploys>>

(* Dashboard: REGENERATE WORLD SEED, and the zone effect on the new world *)
regenerateWorld ==
    /\ \E zoneOk \in BOOLEAN : Commit("regenerateWorld", Store, TRUE, zoneOk)
    /\ UNCHANGED <<revisions, initSinceDeploy, deploys>>

----------------------------------------------------------------------------
(* Robot: the frame callback *)

\* Values a script can throw: an Error, a string, and undefined (or null)
Thrown == {"Error", "string", "undefined"}

Outcomes ==
    [kind : {"return"}, ms : BUDGET_MS..(BUDGET_MS + 1), value : {Null}]
        \cup [kind : {"throw"}, ms : {0}, value : Thrown]

\* e.message of the value caught: undefined (Null) for a value without one.
Message(e) ==
    IF e = "Error" THEN "boom" ELSE IF e = "budget" THEN BUDGET_MESSAGE ELSE Null

\* The value the try block ends with: Null for a normal completion.
Caught(outcome) ==
    IF outcome.kind = "throw" THEN outcome.value
    ELSE IF outcome.ms > BUDGET_MS THEN "budget" ELSE Null

\* A try block that promotes to SAFE before it checks the budget.
ClassifyPromoteFirst(outcome, timer, renderedStatus) ==
    IF Caught(outcome) # Null
    THEN IF outcome.kind = "return" /\ timer > T_SAFE /\ renderedStatus = "RUNNING"
         THEN <<"SAFE", "ERROR">>
         ELSE <<"ERROR">>
    ELSE IF timer > T_SAFE /\ renderedStatus = "RUNNING" THEN <<"SAFE">>
    ELSE <<>>

\* The setExecutionStatus calls of one try/catch, in order.
Classify(outcome, timer, renderedStatus) ==
    IF Caught(outcome) # Null THEN <<"ERROR">>
    ELSE IF timer > T_SAFE /\ renderedStatus = "RUNNING" THEN <<"SAFE">>
    ELSE <<>>

\* followLog says whether the 30 s timer of the periodic log is followed: it
\* is where a property reads it, and the runs of the other specifications are
\* taken to stay below 30 s of logged time.  The telemetry series the frame
\* adds to is followed in SpecTelemetry, by the calls of addTelemetryFrame.
useFrame(dt, currentSpeed, initProg, initThrows, stepProg, outcome, followLog) ==
    LET inSync == ~NeedsRender
        gate == rendered.autonomyEnabled /\ rendered.executionStatus # "ERROR"
        doInit == gate /\ ~hasInit
        stepCalled == gate /\ brain.stepFn.fn = "step" /\ (doInit \/ api = "bound")
        \* the api object held by the executor is this frame's only if init ran
        fresh == doInit
        afterInit == IF doInit
                     THEN Stage(Neutral, Executed(initProg), currentSpeed)
                     ELSE Neutral
        staged == IF stepCalled
                  THEN Stage(afterInit, Executed(stepProg), currentSpeed)
                  ELSE afterInit
        afterStep == IF fresh THEN staged ELSE afterInit
        \* a capability call that throws ends step with its TypeError
        raised == stepCalled /\ Raises(stepProg)
        ended == IF raised THEN [kind |-> "throw", ms |-> 0, value |-> "Error"]
                 ELSE outcome
        e == IF stepCalled THEN Caught(ended) ELSE Null
        fault == e # Null
        \* reading e.message of undefined throws inside the catch block
        crash == fault /\ e = "undefined"
        errorMsg == IF Message(e) # Null THEN Message(e) ELSE RUNTIME_ERROR
        timer0 == IF doInit THEN 0 ELSE safetyTimerRef
        timer1 == IF stepCalled /\ ~fault THEN Saturate(timer0 + dt) ELSE timer0
        sets == IF stepCalled
                THEN Classify(ended, timer1, rendered.executionStatus)
                ELSE <<>>
        inputs == IF gate
                  THEN IF fault /\ ~crash
                       THEN [afterStep EXCEPT !.throttle = 0, !.brake = 20]
                       ELSE afterStep
                  ELSE IF ~rendered.autonomyEnabled
                       THEN [Neutral EXCEPT !.brake = 10]
                       ELSE Neutral
        stopLogs == IF fault /\ ~crash
                    THEN addAiLog(aiLogs, [event |-> "STOP", message |-> errorMsg])
                    ELSE aiLogs
        \* KPI and logging block, which a crashed callback never reaches
        metered == followLog /\ gate /\ ~crash
        logTimer == IF metered THEN aiLogTimerRef + dt ELSE aiLogTimerRef
        periodic == metered /\ logTimer >= T_PERIODIC
    IN  /\ inSync \/ staleTicks < MaxStaleTicks
        /\ (fault /\ ~crash) => Len(aiLogs) < MaxAiLogs
        /\ periodic => Len(stopLogs) < MaxAiLogs
        /\ staleTicks' = IF inSync THEN 0 ELSE staleTicks + 1
        /\ api' = IF doInit THEN "bound" ELSE api
        /\ hasInit' = (hasInit \/ doInit)
        /\ safetyTimerRef' = timer1
        /\ executionStatus' = IF sets = <<>> THEN executionStatus ELSE sets[Len(sets)]
        /\ errorLog' = IF fault /\ ~crash THEN errorMsg ELSE errorLog
        /\ aiLogs' = IF periodic
                     THEN addAiLog(stopLogs, [event |-> "PERIODIC", message |-> Null])
                     ELSE stopLogs
        /\ aiLogTimerRef' = IF periodic THEN 0 ELSE logTimer
        /\ initSinceDeploy' = (initSinceDeploy \/ doInit)
        /\ inited' = (inited \/ doInit)
        /\ last' = [kind |-> "useFrame", inSync |-> inSync, pre |-> executionStatus,
                    dt |-> dt,
                    init |-> IF ~doInit THEN "none"
                             ELSE IF initThrows \/ Raises(initProg) THEN "threw"
                             ELSE "ok",
                    step |-> IF ~stepCalled THEN "none"
                             ELSE IF ~fault THEN "ok"
                             ELSE IF e = "budget" THEN "overrun" ELSE "threw",
                    thrown |-> IF outcome.kind = "throw" /\ stepCalled
                               THEN outcome.value ELSE Null,
                    ms |-> IF stepCalled THEN outcome.ms ELSE 0,
                    fresh |-> fresh, staged |-> staged,
                    applied |-> IF crash THEN Neutral ELSE inputs,
                    physics |-> ~crash, sets |-> sets, raised |-> raised,
                    metered |-> metered, periodic |-> periodic]
        /\ UNCHANGED <<autonomyEnabled, userCode, revisions, rendered,
                       lastCodeRef, brain, deploys, telemetryHistory, scan>>

\* A frame in which the script is run; its writes are drawn from progs and
\* the robot's forward speed from speeds
ScriptFrame(progs, speeds) ==
    /\ rendered.autonomyEnabled /\ rendered.executionStatus # "ERROR"
    /\ \E dt \in 1..DT_CLAMP, currentSpeed \in speeds, stepProg \in progs,
          outcome \in Outcomes :
          \E initProg \in (IF hasInit THEN {<<>>} ELSE progs),
             initThrows \in (IF hasInit THEN {FALSE} ELSE BOOLEAN) :
             useFrame(dt, currentSpeed, initProg, initThrows, stepProg, outcome, FALSE)

\* A frame in which it is not (autonomy off, or state ERROR)
IdleFrame ==
    /\ ~(rendered.autonomyEnabled /\ rendered.executionStatus # "ERROR")
    /\ \E dt \in 1..DT_CLAMP :
          useFrame(dt, 0, <<>>, FALSE, <<>>, [kind |-> "return", ms |-> 0, value |-> Null],
                   FALSE)

\* The same two frames of a script that neither writes nor faults, with the
\* timer of the periodic log followed
LoggedFrame ==
    /\ rendered.autonomyEnabled /\ rendered.executionStatus # "ERROR"
    /\ \E dt \in 1..DT_CLAMP :
          useFrame(dt, 0, <<>>, FALSE, <<>>, [kind |-> "return", ms |-> 0, value |-> Null],
                   TRUE)

LoggedIdleFrame ==
    /\ ~(rendered.autonomyEnabled /\ rendered.executionStatus # "ERROR")
    /\ \E dt \in 1..DT_CLAMP :
          useFrame(dt, 0, <<>>, FALSE, <<>>, [kind |-> "return", ms |-> 0, value |-> Null],
                   TRUE)

----------------------------------------------------------------------------
(* Specifications *)

\* runTime observes the run: the fault-free stepped time since the last
\* deploy.  It is followed only where a property reads it.
TrackRunTime ==
    runTime' = IF last'.kind = "handleRun" THEN 0
               ELSE IF last'.kind = "useFrame" /\ last'.step = "ok"
                    THEN Saturate(runTime + last'.dt)
               ELSE runTime

\* The supervisor's life cycle: every script and user action, with scripts
\* that leave the actuators alone.
Deploy ==
    /\ deploys < MaxDeploys
    /\ (\E code \in Scripts : handleRun(code)) /\ UNCHANGED history
Stop == handleStop /\ UNCHANGED history
Toggle == toggleAutonomy /\ UNCHANGED history
Regenerate == regenerateWorld /\ UNCHANGED history
Rerender == Render /\ UNCHANGED history
Stepped == ScriptFrame({<<>>}, {0}) /\ UNCHANGED history
Skipped == IdleFrame /\ UNCHANGED history

Next ==
    \/ Deploy
    \/ Stop
    \/ Toggle
    \/ Regenerate
    \/ Rerender
    \/ Stepped
    \/ Skipped

Spec == Init /\ [][Next]_vars

\* The compiler alone: script texts of every kind compiled one after the other.
compileText ==
    /\ \E code \in CompileTexts :
          /\ brain' = Compiled(brain, code)
          /\ inited' = IF compile(code).success THEN FALSE ELSE inited
          /\ last' = [kind |-> "compile", code |-> code, result |-> compile(code),
                      before |-> brain, reached |-> Reached(code)]
    /\ UNCHANGED <<executionStatus, autonomyEnabled, userCode, errorLog, revisions,
                   aiLogs, rendered, lastCodeRef, api, hasInit, safetyTimerRef,
                   aiLogTimerRef, staleTicks, initSinceDeploy, history, deploys,
                   telemetryHistory, scan>>

NextCompile ==
    \/ compileText

SpecCompile == Init /\ [][NextCompile]_vars

\* Hot swaps: deploys that replace the running brain by another one.
Swap ==
    /\ deploys < MaxDeploys
    /\ (\E code \in {DEFAULT_CODE, "patrol"} : handleRun(code)) /\ UNCHANGED history

NextSwap ==
    \/ Swap
    \/ Rerender
    \/ Stepped
    \/ Skipped

SpecSwap == Init /\ [][NextSwap]_vars

\* faulted observes the run: a step has faulted and the user has not since
\* deployed, stopped or toggled the mission.
TrackFaulted ==
    faulted' = IF last'.kind = "useFrame" /\ last'.step \in {"threw", "overrun"}
               THEN TRUE
               ELSE IF last'.kind \in {"handleRun", "handleStop", "toggleAutonomy"}
                    THEN FALSE
               ELSE faulted

\* The life cycle of the default script, with its faults followed.
FaultDeploy == deploys < MaxDeploys /\ handleRun(DEFAULT_CODE) /\ TrackFaulted /\ UNCHANGED <<runTime, sinceEvent>>
FaultStop == handleStop /\ TrackFaulted /\ UNCHANGED <<runTime, sinceEvent>>
FaultToggle == toggleAutonomy /\ TrackFaulted /\ UNCHANGED <<runTime, sinceEvent>>
FaultRegenerate == regenerateWorld /\ TrackFaulted /\ UNCHANGED <<runTime, sinceEvent>>
FaultRender == Render /\ TrackFaulted /\ UNCHANGED <<runTime, sinceEvent>>
FaultStepped == ScriptFrame({<<>>}, {0}) /\ TrackFaulted /\ UNCHANGED <<runTime, sinceEvent>>
FaultSkipped == IdleFrame /\ TrackFaulted /\ UNCHANGED <<runTime, sinceEvent>>

NextFault ==
    \/ FaultDeploy
    \/ FaultStop
    \/ FaultToggle
    \/ FaultRegenerate
    \/ FaultRender
    \/ FaultStepped
    \/ FaultSkipped

SpecFault == Init /\ [][NextFault]_vars

\* The revision ledger: the two scripts deployed in turn, many times over,
\* with stops and mission toggles in between.
TurnCode(n) == IF n % 2 = 1 THEN DEFAULT_CODE ELSE "patrol"

LedgerDeploy ==
    /\ deploys < MaxLedgerDeploys
    /\ handleRun(TurnCode(deploys + 1)) /\ UNCHANGED history

NextLedger ==
    \/ LedgerDeploy
    \/ Stop
    \/ Toggle

SpecLedger == Init /\ [][NextLedger]_vars

\* sinceEvent observes the run: the time the script has been running since
\* the run began (DEPLOY & RUN) or since the last PERIODIC event.
TrackSinceEvent ==
    sinceEvent' = IF last'.kind = "handleRun" THEN 0
                  ELSE IF last'.kind = "useFrame" /\ last'.periodic THEN 0
                  ELSE IF last'.kind = "useFrame" /\ last'.step = "ok"
                       THEN Min(sinceEvent + last'.dt, T_PERIODIC)
                  ELSE sinceEvent

\* Runs of the default script, stopped and deployed again, with the periodic
\* log followed.
LoggedDeploy == deploys < MaxDeploys /\ handleRun(DEFAULT_CODE) /\ TrackSinceEvent /\ UNCHANGED <<runTime, faulted>>
LoggedStop == handleStop /\ TrackSinceEvent /\ UNCHANGED <<runTime, faulted>>
LoggedRender == Render /\ TrackSinceEvent /\ UNCHANGED <<runTime, faulted>>
LoggedStepped == LoggedFrame /\ TrackSinceEvent /\ UNCHANGED <<runTime, faulted>>
LoggedSkipped == LoggedIdleFrame /\ TrackSinceEvent /\ UNCHANGED <<runTime, faulted>>

NextPeriodic ==
    \/ LoggedDeploy
    \/ LoggedStop
    \/ LoggedRender
    \/ LoggedStepped
    \/ LoggedSkipped

SpecPeriodic == Init /\ [][NextPeriodic]_vars

\* The coverage planner called with polygons and tool widths.  The operator
\* planCoverage is the value of a call that returns, so a width that is not
\* positive is drawn only with an absent polygon or one of at most one vertex;
\* the scan loop itself is followed step by step in SpecScan.
callPlanCoverage ==
    /\ \E polygon \in {Given(v) : v \in Polygons} \cup {Absent},
          width \in Widths \cup OtherWidths :
          /\ width \in OtherWidths => Len(polygon.vertices) < 2
          /\ last' = [kind |-> "planCoverage", given |-> polygon.given,
                      polygon |-> polygon.vertices, width |-> width,
                      path |-> planCoverage(polygon, width)]
    /\ UNCHANGED <<executionStatus, autonomyEnabled, userCode, errorLog, revisions,
                   aiLogs, rendered, lastCodeRef, brain, api, hasInit, safetyTimerRef,
                   aiLogTimerRef, staleTicks, initSinceDeploy, inited, history, deploys,
                   telemetryHistory, scan>>

NextPlan == callPlanCoverage

SpecPlan == Init /\ [][NextPlan]_vars

\* The RUNS tab: deploys of two scripts, with loads of their revisions and
\* reverts in between.
Load == (\E i \in 1..MaxDeploys : loadRevision(i)) /\ UNCHANGED history
Revert == revertToSafe /\ UNCHANGED history

NextRevisions ==
    \/ Swap
    \/ Load
    \/ Revert
    \/ Rerender
    \/ Stepped
    \/ Skipped

SpecRevisions == Init /\ [][NextRevisions]_vars

\* The telemetry series: frames added one after another, numbered as they
\* are sampled, and hot swaps, which clear the series.
Sampled(n) == IF telemetryHistory = <<>> THEN n = 1
              ELSE n = telemetryHistory[Len(telemetryHistory)] + 1

Sample ==
    /\ \E n \in 1..MaxFrames :
          /\ Sampled(n)
          /\ telemetryHistory' = addTelemetryFrame(telemetryHistory, n)
    /\ last' = NoTick("addTelemetryFrame")
    /\ UNCHANGED <<executionStatus, autonomyEnabled, userCode, errorLog, revisions,
                   aiLogs, rendered, lastCodeRef, brain, api, hasInit, safetyTimerRef,
                   aiLogTimerRef, staleTicks, initSinceDeploy, inited, history, deploys,
                   scan>>

NextTelemetry ==
    \/ Sample
    \/ Swap

SpecTelemetry == Init /\ [][NextTelemetry]_vars

\* The scan loop of the coverage planner, for every polygon and every width,
\* positive or not.  A call that has started keeps running: the loop is
\* synchronous code.
callScan ==
    /\ scan.pc # "loop"
    /\ \E polygon \in {Given(v) : v \in Polygons} \cup {Absent},
          width \in Widths \cup OtherWidths :
          scan' = enterScan(polygon, width)
    /\ last' = NoTick("planCoverage")
    /\ UNCHANGED <<executionStatus, autonomyEnabled, userCode, errorLog, revisions,
                   aiLogs, rendered, lastCodeRef, brain, api, hasInit, safetyTimerRef,
                   aiLogTimerRef, staleTicks, initSinceDeploy, inited, history, deploys,
                   telemetryHistory>>

scanStep ==
    /\ scan.pc = "loop"
    /\ scan' = scanLoop(scan)
    /\ last' = NoTick("scan")
    /\ UNCHANGED <<executionStatus, autonomyEnabled, userCode, errorLog, revisions,
                   aiLogs, rendered, lastCodeRef, brain, api, hasInit, safetyTimerRef,
                   aiLogTimerRef, staleTicks, initSinceDeploy, inited, history, deploys,
                   telemetryHistory>>

NextScan ==
    \/ callScan
    \/ scanStep

SpecScan == Init /\ [][NextScan]_vars /\ WF_vars(scanStep)

\* The actuator path: the default script deployed and run, with scripts that
\* write the actuators.
DeployDefault == deploys < MaxDeploys /\ handleRun(DEFAULT_CODE) /\ UNCHANGED history
Driven == ScriptFrame(Programs, Speeds) /\ UNCHANGED history

NextIntents ==
    \/ DeployDefault
    \/ Rerender
    \/ Driven
    \/ Skipped

SpecIntents == Init /\ [][NextIntents]_vars

\* The telemetry and debug surface: the default script deployed and run, with
\* scripts that make telemetry and debug calls.
Instrumented == ScriptFrame(CallPrograms, {0}) /\ UNCHANGED history

NextCalls ==
    \/ DeployDefault
    \/ Rerender
    \/ Instrumented
    \/ Skipped

SpecCalls == Init /\ [][NextCalls]_vars

\* Redeploys of the default script, with the running time followed.
TimedDeploy == deploys < MaxDeploys /\ handleRun(DEFAULT_CODE) /\ TrackRunTime /\ UNCHANGED <<faulted, sinceEvent>>
TimedRender == Render /\ TrackRunTime /\ UNCHANGED <<faulted, sinceEvent>>
TimedStepped == ScriptFrame({<<>>}, {0}) /\ TrackRunTime /\ UNCHANGED <<faulted, sinceEvent>>
TimedSkipped == IdleFrame /\ TrackRunTime /\ UNCHANGED <<faulted, sinceEvent>>

NextRedeploy ==
    \/ TimedDeploy
    \/ TimedRender
    \/ TimedStepped
    \/ TimedSkipped

SpecRedeploy == Init /\ [][NextRedeploy]_vars

----------------------------------------------------------------------------
(* Further properties of the life cycle (Spec) *)

\* C26: init or step is invoked only in a tick whose executionStatus is
\* RUNNING or SAFE, whatever the user did before.
C26_ScriptRunsOnlyWhenRunning ==
    (last.kind = "useFrame" /\ (last.init # "none" \/ last.step # "none")) =>
        last.pre \in {"RUNNING", "SAFE"}

\* C29: whenever executionStatus is ERROR, errorLog holds a message.
C29_ErrorHasMessage ==
    executionStatus = "ERROR" => (errorLog # Null /\ errorLog # "")

----------------------------------------------------------------------------
(* Properties of the compiler (SpecCompile) *)

\* C11: compile returns an error result, and installs nothing, for every
\* script text that does not parse or throws when evaluated, whatever it
\* throws, the error being the diagnostic of the thrown value; for a result
\* that is missing or has no callable step the error is the message about the
\* step function; it reports success only when the installed step is
\* callable, a missing init being installed as a no-op.
C11_CompileContract ==
    last.kind = "compile" =>
        LET ev == Evaluate(last.code)
            r == last.result
        IN  /\ ~r.raised
            /\ ev.thrown # Null
                  => (~r.success /\ r.error = toString(ev.thrown) /\ brain = last.before)
            /\ (ev.thrown = Null /\ (~ev.object \/ ev.step[1] # "function"))
                  => (~r.success /\ r.error = NO_STEP_MESSAGE /\ brain = last.before)
            /\ r.success
                  => /\ brain.stepFn = [from |-> last.code, fn |-> "step"]
                     /\ brain.initFn.from = last.code
                     /\ ~ev.init => brain.initFn.fn = "noop"

\* C12: a failed compile leaves the stored init and step as they were, and
\* the stored init and step always come from the same script.
C12_NoPartialPatch ==
    /\ brain.initFn.from = brain.stepFn.from
    /\ (last.kind = "compile" /\ ~last.result.success) => brain = last.before

\* C23: a script reaches no host state through its scope: evaluating a
\* script text reaches none of the host's globals or module bindings (the
\* capability object is an argument of init and step, not a name in scope).
C23_NoAmbientAccess ==
    last.kind = "compile" => last.reached = {}

----------------------------------------------------------------------------
(* Properties of the RUNS tab (SpecRevisions) *)

\* C24: revertToSafe restores the script of the most recent run that reached
\* SAFE (after a run that is in state SAFE: the newest revision), sets the
\* state to IDLE and clears errorLog; with no revision tagged SAFE it changes
\* nothing.
C24_RevertRestoresSafeRun ==
    [][last'.kind = "revertToSafe" =>
          /\ (executionStatus = "SAFE" /\ revisions # <<>>) =>
                /\ userCode' = revisions[1].code
                /\ executionStatus' = "IDLE"
                /\ errorLog' = Null
          /\ (SafeRevisions = {} /\ executionStatus # "SAFE") =>
                UNCHANGED <<userCode, executionStatus, errorLog>>]_vars

\* C30: the brain that is stepped is replaced by a deploy only: not by the
\* load of a revision and not by revertToSafe.
C30_BrainReplacedByDeployOnly ==
    [][brain' # brain => last'.kind = "handleRun"]_vars

----------------------------------------------------------------------------
(* Properties of the telemetry series (SpecTelemetry) *)

\* C25: telemetryHistory never holds more than 600 frames, and holds the most
\* recently added ones in the order they were added.
C25_TelemetryKeepsLast600 ==
    /\ Len(telemetryHistory) <= TELEMETRY_CAP
    /\ \A i \in DOMAIN telemetryHistory :
          i > 1 => telemetryHistory[i] = telemetryHistory[i - 1] + 1

----------------------------------------------------------------------------
(* Properties of hot swaps (SpecSwap) *)

\* C13: the init of a compiled brain has been invoked, and has returned or
\* thrown, before its step is invoked for the first time: whenever a frame
\* invokes step, init was invoked since the brain was compiled.
C13_InitBeforeFirstStep ==
    (last.kind = "useFrame" /\ last.step # "none") => inited

\* The first frame after a deploy that replaced the brain: init ran, then
\* step.
C13_Witness ==
    /\ last.kind = "useFrame"
    /\ last.init # "none"
    /\ last.step # "none"
    /\ brain.stepFn.from = "patrol"
    /\ inited

----------------------------------------------------------------------------
(* Properties of the revision ledger (SpecLedger) *)

\* C18: after n deploys the ledger holds exactly the min(n, 50) most recently
\* deployed snapshots, newest first, each with tag UNKNOWN; a deploy into a
\* full ledger evicts the oldest entry only.
C18_LedgerKeepsNewest ==
    /\ Len(revisions) = Min(deploys, REVISION_CAP)
    /\ \A i \in DOMAIN revisions :
          revisions[i] = [timestamp |-> deploys - i + 1,
                          code |-> TurnCode(deploys - i + 1), status |-> "UNKNOWN"]

\* A full ledger after two evictions
C18_Witness ==
    /\ deploys = REVISION_CAP + 2
    /\ Len(revisions) = REVISION_CAP
    /\ revisions[REVISION_CAP].timestamp = 3

----------------------------------------------------------------------------
(* Properties of the periodic log (SpecPeriodic) *)

\* C19: a frame in which the script runs emits a PERIODIC event exactly when
\* 30 s of running time have accumulated since the run began or since the
\* previous PERIODIC event; none is emitted with less than 30 s accumulated.
C19_PeriodicEveryThirtySeconds ==
    [][(last'.kind = "useFrame" /\ last'.step = "ok") =>
          (last'.periodic <=> sinceEvent + last'.dt >= T_PERIODIC)]_vars

----------------------------------------------------------------------------
(* Properties of the coverage planner (SpecPlan) *)

Square == Rectangle(10, 10)

\* C20: on the 10 x 10 square with tool width 2 the path is one pair of
\* waypoints at x = 0 and x = 10 on each of the scan lines z = 1, 3, 5, 7, 9,
\* left to right first and alternating; for every polygon and width the scan
\* lines are those at z = zMin + width/2 + k * width below zMax: every waypoint
\* lies on one, in scan order, and every one carries waypoints.
C20_ScanLines ==
    last.kind = "planCoverage" /\ Len(last.polygon) >= 3 =>
        LET bounds == getPolygonBounds(last.polygon)
            w == last.width
            path == last.path
            OnScanLine(z) == /\ z < bounds.maxZ
                             /\ z >= bounds.minZ + w \div 2
                             /\ (z - bounds.minZ - w \div 2) % w = 0
        IN  /\ (last.polygon = Square /\ w = 2 * 2) =>
                  path = <<P(0, 1), P(10, 1), P(10, 3), P(0, 3), P(0, 5), P(10, 5),
                           P(10, 7), P(0, 7), P(0, 9), P(10, 9)>>
            /\ \A i \in DOMAIN path : OnScanLine(path[i].z)
            /\ \A i, j \in DOMAIN path : i <= j => path[i].z <= path[j].z
            /\ \A z \in bounds.minZ..bounds.maxZ :
                  OnScanLine(z) => \E i \in DOMAIN path : path[i].z = z

\* The square of the scenario has been planned
C20_Witness ==
    /\ last.kind = "planCoverage"
    /\ last.polygon = Square /\ last.width = 2 * 2
    /\ Len(last.path) = 10

\* The waypoints of the path on the scan line at z, in path order
RECURSIVE LineOf(_, _)
LineOf(path, z) ==
    IF path = <<>> THEN <<>>
    ELSE (IF Head(path).z = z THEN <<Head(path).x>> ELSE <<>>) \o LineOf(Tail(path), z)

\* The scan lines of a call, in scan order, as far as MaxOf the polygon
ScanLinesOf(polygon, width) ==
    LET bounds == getPolygonBounds(polygon)
        n == (bounds.maxZ - bounds.minZ) \div width + 1
    IN  [k \in 1..n |-> bounds.minZ + width \div 2 + (k - 1) * width]

\* C21: for a convex polygon and a positive tool width the number of
\* waypoints is even, every scan line contributes an even number of them, and
\* the scan lines that contribute are travelled left to right and right to
\* left in turn, the first left to right.
C21_PairsAlternate ==
    (last.kind = "planCoverage" /\ last.polygon \in ConvexPolygons /\ last.width > 0) =>
        LET lines == ScanLinesOf(last.polygon, last.width)
        IN  /\ Len(last.path) % 2 = 0
            /\ \A k \in DOMAIN lines :
                  LET xs == LineOf(last.path, lines[k])
                  IN  /\ Len(xs) % 2 = 0
                      /\ xs # <<>> =>
                            IF k % 2 = 1 THEN xs[1] < xs[Len(xs)]
                            ELSE xs[1] > xs[Len(xs)]

\* C22: the path is empty for every polygon of fewer than three vertices and
\* for an absent polygon, whatever the tool width.
C22_TooFewIsEmpty ==
    (last.kind = "planCoverage" /\ (~last.given \/ Len(last.polygon) < 3)) =>
        last.path = <<>>

\* A polygon of two vertices has been planned
C22_Witness ==
    /\ last.kind = "planCoverage"
    /\ last.given /\ Len(last.polygon) = 2
    /\ last.path = <<>>

\* C28: on every scan line the waypoints are in order of travel: x does not
\* decrease along a left-to-right line (the first, third, ... scan line) and
\* does not increase along a right-to-left one, for concave polygons too.
C28_WaypointsInTravelOrder ==
    (last.kind = "planCoverage" /\ Len(last.polygon) >= 3 /\ last.width > 0) =>
        LET lines == ScanLinesOf(last.polygon, last.width)
        IN  \A k \in DOMAIN lines :
               LET xs == LineOf(last.path, lines[k])
               IN  \A i, j \in DOMAIN xs :
                      i < j => IF k % 2 = 1 THEN xs[i] <= xs[j] ELSE xs[i] >= xs[j]

----------------------------------------------------------------------------
(* Properties of the scan loop (SpecScan) *)

\* C27: every call of planCoverage returns, for every polygon and every
\* numeric tool width, zero and negative ones included.
C27_PlanCoverageReturns ==
    (scan.pc = "loop") ~> (scan.pc = "returned")

----------------------------------------------------------------------------
(* Properties of the actuator path (SpecIntents) *)

\* C1: in every frame in which step is invoked and no fault occurs, the
\* intents the script staged during the frame are exactly the inputs passed
\* to that frame's physics.update, on every frame after a deploy and not only
\* on the one in which init ran.
C1_StagedIntentsReachPhysics ==
    (last.kind = "useFrame" /\ last.step = "ok")
        => (last.physics /\ last.applied = last.staged)

\* C2: in every frame in which step throws or overruns the budget, the inputs
\* applied to physics are the stop intent (throttle 0, steer 0, brake
\* engaged), whatever the script wrote before it faulted.
C2_FaultAppliesStopIntent ==
    (last.kind = "useFrame" /\ last.step \in {"threw", "overrun"})
        => (last.physics /\ last.applied = [throttle |-> 0, steer |-> 0, brake |-> 20])

----------------------------------------------------------------------------
(* Properties of the telemetry and debug surface (SpecCalls) *)

\* C17: no call the script makes to telemetry.log, telemetry.watch,
\* debug.text or debug.path, whatever its arguments, throws back into the
\* script or makes the frame a step fault.
C17_CallsNeverThrow ==
    last.kind = "useFrame"
        => (~last.raised /\ (last.thrown = Null /\ last.ms <= BUDGET_MS => last.step # "threw"))

----------------------------------------------------------------------------
(* Properties of the supervisor's life cycle (Spec) *)

\* C3: ERROR is left only by an explicit action of the user in the Brain Lab
\* (DEPLOY & RUN, or STOP); no frame and no effect changes ERROR to RUNNING,
\* SAFE or IDLE on its own.
C3_ErrorOnlyExitedByUser ==
    [][(executionStatus = "ERROR" /\ executionStatus' # "ERROR")
           => last'.kind \in {"handleRun", "handleStop"}]_vars

\* C4: if init throws on the first frame after a deploy, the state becomes
\* ERROR and step is not invoked in that frame.
C4_InitFaultBlocksStep ==
    (last.kind = "useFrame" /\ last.init = "threw")
        => (executionStatus = "ERROR" /\ last.step = "none")

\* C5: the outcome tag of the most recently deployed revision follows the
\* run: when a frame moves the state from RUNNING to SAFE or to ERROR, the tag
\* is SAFE or ERROR accordingly.
C5_RevisionTagFollowsRun ==
    (/\ last.kind = "useFrame"
     /\ last.pre = "RUNNING"
     /\ executionStatus \in {"SAFE", "ERROR"}
     /\ revisions # <<>>)
        => revisions[1].status = executionStatus

\* C6: after a deploy whose compile failed, and while autonomy stays engaged,
\* every frame still steps the previously compiled brain, and the compile
\* error is shown to the user.
C6_FailedCompileKeepsBrainStepping ==
    (/\ last.kind = "useFrame"
     /\ autonomyEnabled
     /\ ~compile(userCode).success)
        => (last.step # "none" /\ errorLog # Null)

\* C7: after every successful deploy, whether or not the script text changed,
\* init is invoked before the next step (and with it the fault-free timer is
\* reset).
C7_DeployReinitialises ==
    (last.kind = "useFrame" /\ last.step # "none") => initSinceDeploy

\* C9: in a frame in state RUNNING or SAFE in which step throws (whatever the
\* value) or takes more than 5 ms, the state becomes ERROR, errorLog is set to
\* a message (the CPU budget message on an overrun), and exactly one fault
\* event carrying that message is added to the diagnostic log; a step of
\* exactly 5 ms is not a fault.
C9_FaultIsReported ==
    [][(last'.kind = "useFrame" /\ executionStatus \in {"RUNNING", "SAFE"})
           => /\ last'.step \in {"threw", "overrun"}
                  => /\ executionStatus' = "ERROR"
                     /\ errorLog' # Null
                     /\ last'.step = "overrun" => errorLog' = BUDGET_MESSAGE
                     /\ aiLogs' = <<[event |-> "STOP", message |-> errorLog']>> \o aiLogs
              /\ (last'.step # "none" /\ last'.thrown = Null /\ last'.ms = BUDGET_MS)
                  => (last'.step = "ok" /\ aiLogs' = aiLogs)]_vars

\* C14: a user stop taken in any state, by the Brain Lab STOP button or by
\* stopping the mission with the Dashboard toggle, leaves the state IDLE.
C14_UserStopLeavesIdle ==
    (\/ last.kind = "handleStop"
     \/ (last.kind = "toggleAutonomy" /\ ~autonomyEnabled))
        => executionStatus = "IDLE"

\* C16: every frame invokes physics.update, whatever the script does in init
\* or step: return, overrun, or throw any value.
C16_PhysicsEveryTick ==
    last.kind = "useFrame" => last.physics

----------------------------------------------------------------------------
(* Properties of faults (SpecFault) *)

\* C15: in a frame run while the state is ERROR, step is not invoked and the
\* throttle and steer applied to physics are 0; and once a step has faulted,
\* step is not invoked again before the user deploys or resumes.  (Frames run
\* before Robot re-rendered are left aside.)
C15_NoStepAfterFault ==
    [][(last'.kind = "useFrame" /\ last'.inSync)
           => /\ executionStatus = "ERROR"
                  => /\ last'.step = "none"
                     /\ last'.applied.throttle = 0
                     /\ last'.applied.steer = 0
              /\ faulted => last'.step = "none"]_vars

----------------------------------------------------------------------------
(* Properties of redeploys (SpecRedeploy) *)

\* C8: after a deploy, a frame moves the state from RUNNING to SAFE only when
\* at least 3 s of fault-free running time have accumulated since that
\* deploy.
C8_SafeOnlyAfterThreeSeconds ==
    (/\ last.kind = "useFrame"
     /\ last.pre = "RUNNING"
     /\ executionStatus = "SAFE")
        => runTime >= T_SAFE

\* C10: from state RUNNING, every frame does exactly one of: leave the state
\* RUNNING, set it to SAFE, set it to ERROR.  No frame sets both SAFE and
\* ERROR, and none moves RUNNING to IDLE.
C10_OneOutcomePerTick ==
    (last.kind = "useFrame" /\ last.pre = "RUNNING")
        => /\ executionStatus \in {"RUNNING", "SAFE", "ERROR"}
           /\ Len(last.sets) <= 1
           /\ (last.sets = <<>>) <=> (executionStatus = "RUNNING")
           /\ ~(\E i, j \in DOMAIN last.sets :
                    last.sets[i] = "SAFE" /\ last.sets[j] = "ERROR")

\* A frame from RUNNING in which the budget was overrun while the fault-free
\* timer was already past T_SAFE: only ERROR was set.
C10_Witness ==
    /\ last.kind = "useFrame"
    /\ last.pre = "RUNNING"
    /\ rendered.executionStatus = "RUNNING"
    /\ last.step = "overrun"
    /\ safetyTimerRef > T_SAFE
    /\ executionStatus = "ERROR"

====
